---- MODULE Spec2Model ----
(***************************************************************************)
(* Model of dnf_ci (src/dnf_ci/__init__.py, src/dnf_ci/cli.py): the        *)
(* isolation session (_exec_isolation) with its callers run_tests,         *)
(* pep8_isolated and pyflakes_isolated, the Git check uncommitted_changes, *)
(* the spec file rewrite of build_dnf, the chained build of build_rpms and *)
(* the command-line driver (main, _test_on_arch).  Every external process  *)
(* is a step whose exit status and standard output the environment         *)
(* chooses.  Byte strings and texts are sequences of integers (bytes, code *)
(* points).                                                                *)
(***************************************************************************)
EXTENDS Integers, Sequences, FiniteSets, TLC

VARIABLES
    pc,            \* position of the running call
    fn,            \* the API function that was called
    cwd,           \* argument: host working directory to copy in
    root,          \* argument: name of the Mock root
    argdeps,       \* argument: caller's dependencies (run_tests, _exec_isolation)
    argcmds,       \* argument: command lines of a direct _exec_isolation call
    cmdlines,      \* _exec_isolation parameter cmdlines
    dependencies,  \* _exec_isolation parameter dependencies
    idx,           \* position of the for loop in cmdlines
    err,           \* the CalledProcessError accumulator of _exec_isolation
    sres,          \* outcome of _exec_isolation
    res,           \* outcome of the API function
    stdout,        \* text printed to the standard output
    calls,         \* processes launched so far, in order
    staging,       \* what /tmp/dnf-ci holds inside the root
    difffiles,     \* repository: exit status of "git diff-files"
    diffindex,     \* repository: exit statuses of "git diff-index" per refresh
    gen,           \* repository: the refresh generation the index is in
    specfile,      \* content of package/dnf.spec
    specorig,      \* content of package/dnf.spec when build_dnf was called
    revout,        \* bytes the package/archive helper writes
    revision,      \* build_dnf's local variable revision
    sources,       \* build_rpms argument: names of the SRPM files
    failing,       \* the SRPM names that cannot be built
    resultdir,     \* what the destination directory of build_rpms records
    argarch,       \* driver: the -a arguments as given
    outconf,       \* driver: the _OutputConf made of the command line
    dirty,         \* driver: what uncommitted_changes finds
    archs,         \* driver: the sequence the for loop of main runs over
    archidx,       \* driver: position of the for loop of main
    status,        \* driver: main's local variable status
    rpms,          \* driver: _test_on_arch's local variable rpms
    fs,            \* driver: the files the builds left in their directories
    files,         \* driver: the output files, by name
    apicalls,      \* driver: the dnf_ci.api calls made so far, in order
    prints,        \* driver: what main and _test_on_arch printed, in order
    round,         \* repeated call: which of the two calls is running
    first          \* repeated call: outcome of the first call

OldVars == <<pc, fn, cwd, root, argdeps, argcmds, cmdlines, dependencies, idx,
             err, sres, res, stdout, calls, staging, difffiles, diffindex, gen,
             specfile, specorig, revout, revision>>
RpmsVars == <<sources, failing, resultdir>>
CliVars == <<argarch, outconf, dirty, archs, archidx, status, rpms, fs, files,
             apicalls, prints>>
TwiceVars == <<round, first>>
vars == <<OldVars, RpmsVars, CliVars, TwiceVars>>

(***************************************************************************)
(* Bounds of the model.                                                    *)
(***************************************************************************)
MaxCmds == 3        \* longest command list of a direct _exec_isolation call
MaxDeps == 1        \* most dependencies a caller passes
MaxRefresh == 2     \* most diff-index statuses a repository steps through
MaxSpecLen == 4     \* most characters a spec file holds after its first line

Statuses == {0, 1, 2}           \* exit statuses a process ends with
IgnoredStatuses == {0, 1}       \* exit statuses of the unchecked setup steps
\* how a command run inside the root may end: exit status and standard
\* output (b"a", or b"\xc3", which is no UTF-8 text)
Results == {[status |-> 0, out |-> <<97>>], [status |-> 0, out |-> <<195>>],
            [status |-> 1, out |-> <<97>>], [status |-> 2, out |-> <<195>>]}
\* how a failing removal or ownership fix may end
SetupFailures == {[status |-> 1, out |-> <<>>], [status |-> 2, out |-> <<97>>]}
Newline == <<10>>               \* "\n"
Packages == <<"pkg1", "pkg2", "pkg3">>
CmdAlphabet == {"c1", "c2"}

(***************************************************************************)
(* Helpers.                                                                *)
(***************************************************************************)
SeqsUpTo(S, n) == UNION {[1..k -> S] : k \in 0..n}

RECURSIVE Concat(_)
Concat(ss) == IF ss = <<>> THEN <<>> ELSE Head(ss) \o Concat(Tail(ss))

RECURSIVE Flatten(_)
\* itertools.chain.from_iterable
Flatten(ss) == IF ss = <<>> THEN <<>> ELSE Head(ss) \o Flatten(Tail(ss))

IsCont(b) == b \in 128..191

RECURSIVE Utf8Decode(_)
\* bytes.decode(): strict UTF-8; [ok, text], ok = FALSE is UnicodeDecodeError
Utf8Decode(b) ==
    IF b = <<>> THEN [ok |-> TRUE, text |-> <<>>]
    ELSE LET c == Head(b)
             n == IF c < 128 THEN 1
                  ELSE IF c \in 194..223 THEN 2
                  ELSE IF c \in 224..239 THEN 3
                  ELSE IF c \in 240..244 THEN 4
                  ELSE 0
         IN IF n = 0 \/ Len(b) < n
               \/ \E k \in 2..n : ~IsCont(b[k])
               \/ (c = 224 /\ b[2] < 160) \/ (c = 237 /\ b[2] > 159)
               \/ (c = 240 /\ b[2] < 144) \/ (c = 244 /\ b[2] > 143)
            THEN [ok |-> FALSE, text |-> <<>>]
            ELSE LET cp == IF n = 1 THEN c
                           ELSE IF n = 2 THEN (c - 192) * 64 + (b[2] - 128)
                           ELSE IF n = 3 THEN (c - 224) * 4096 + (b[2] - 128) * 64
                                              + (b[3] - 128)
                           ELSE (c - 240) * 262144 + (b[2] - 128) * 4096
                                + (b[3] - 128) * 64 + (b[4] - 128)
                     r == Utf8Decode(SubSeq(b, n + 1, Len(b)))
                 IN [ok |-> r.ok, text |-> IF r.ok THEN <<cp>> \o r.text ELSE <<>>]

(***************************************************************************)
(* Outcomes of a call.                                                     *)
(***************************************************************************)
NoCmd == <<>>    \* None
Pending == [kind |-> "pending", exc |-> "", returncode |-> 0, cmd |-> NoCmd,
            output |-> <<>>, flag |-> FALSE]
Returned(bytes) == [kind |-> "return", exc |-> "", returncode |-> 0,
                    cmd |-> NoCmd, output |-> bytes, flag |-> FALSE]
ReturnedBool(b) == [kind |-> "return", exc |-> "", returncode |-> 0,
                    cmd |-> NoCmd, output |-> <<>>, flag |-> b]
ReturnedNone == [kind |-> "return", exc |-> "", returncode |-> 0,
                 cmd |-> NoCmd, output |-> <<>>, flag |-> FALSE]
Raised(e) == [kind |-> "raise", exc |-> "CalledProcessError",
              returncode |-> e.returncode, cmd |-> e.cmd, output |-> e.output,
              flag |-> FALSE]
RaisedOther(name) == [kind |-> "raise", exc |-> name, returncode |-> 0,
                      cmd |-> NoCmd, output |-> <<>>, flag |-> FALSE]

\* subprocess.CalledProcessError(returncode, cmd, output)
CalledProcessError(rc, cmd, out) == [returncode |-> rc, cmd |-> cmd, output |-> out]

\* one launched process as the log keeps it
Proc(step, argv, st, out, dir) ==
    [step |-> step, argv |-> argv, status |-> st, out |-> out, dir |-> dir]

(***************************************************************************)
(* Command lines (src/dnf_ci/__init__.py).                                 *)
(***************************************************************************)
mockdn == "/tmp/dnf-ci"
rmcmdl == "rm --recursive --force " \o mockdn
chcmdl == "chown --recursive :mockbuild " \o mockdn
incmd(r, deps) == <<"mock", "--quiet", "--root=" \o r, "--install">> \o deps
cpcmd(r, dir) == <<"mock", "--quiet", "--root=" \o r, "--copyin", dir, mockdn>>

\* a slip: the privilege drop is never asked for
_mock_exec_as_root(r, cmdline, dir, privileged) ==
    <<"mock", "--quiet", "--root=" \o r, "--cwd=" \o dir, "--chroot", cmdline>>

\* the argument vector _mock_exec hands to subprocess.check_output
_mock_exec(r, cmdline, dir, privileged) ==
    LET cmd == <<"mock", "--quiet", "--root=" \o r, "--cwd=" \o dir,
                 "--chroot", cmdline>>
    IN IF ~privileged
       THEN SubSeq(cmd, 1, 3) \o <<"--unpriv">> \o SubSeq(cmd, 4, Len(cmd))
       ELSE cmd

\* the lambda of run_tests; locale defaults to en_US.UTF-8, capture to True
ncmd(version, test, locale, capture) ==
    "LANG=" \o locale \o " LC_ALL=" \o locale \o " nosetests-" \o version
    \o " --quiet" \o (IF capture THEN "" ELSE " --nocapture") \o " " \o test

NoseVersions == <<"2.7", "3.4">>
tcmds(tests) ==
    [v \in 1..Len(NoseVersions) |->
        <<ncmd(NoseVersions[v], tests, "en_US.UTF-8", TRUE),
          ncmd(NoseVersions[v], tests, "cs_CZ.utf8", TRUE),
          ncmd(NoseVersions[v], tests, "en_US.UTF-8", FALSE)>>]

Pep8Exes == <<"pep8", "python3-pep8">>
Pep8Deps == <<"python-pep8", "python3-pep8">>
PyflakesExes == <<"pyflakes", "python3-pyflakes">>
PyflakesDeps == <<"pyflakes", "python3-pyflakes">>
NoseDeps == <<"python-nose", "python3-nose">>
TestsName == "tests"

SessionFns == {"_exec_isolation", "pep8_isolated", "pyflakes_isolated", "run_tests"}
DepLists == {SubSeq(Packages, 1, n) : n \in 0..MaxDeps}
CmdLists == SeqsUpTo(CmdAlphabet, MaxCmds)

(***************************************************************************)
(* The state a call starts from.                                           *)
(***************************************************************************)
NoSession ==
    /\ cmdlines = <<>> /\ dependencies = <<>> /\ idx = 1
    /\ err = CalledProcessError(0, NoCmd, <<>>)
    /\ sres = Pending /\ res = Pending /\ stdout = <<>> /\ calls = <<>>

NoRepository == difffiles = 0 /\ diffindex = <<0>> /\ gen = 1
NoSpecFile == specfile = <<>> /\ specorig = <<>> /\ revout = <<>> /\ revision = <<>>
NoBuildRpms == sources = <<>> /\ failing = {} /\ resultdir = {}
NoOutputConf == [rpmdn |-> "", pep8fn |-> "", pyflakesfn |-> "", pylintfn |-> ""]
NoDriver ==
    /\ argarch = <<>> /\ outconf = NoOutputConf /\ dirty = FALSE
    /\ archs = <<>> /\ archidx = 1 /\ status = 0 /\ rpms = <<>> /\ fs = {}
    /\ files = <<>> /\ apicalls = <<>> /\ prints = <<>>
NoRepeat == round = 1 /\ first = Pending

\* a session call: the staging path is absent or left behind by an earlier session
Init ==
    /\ pc = "call"
    /\ fn \in SessionFns
    /\ cwd = "wd" /\ root = "root.cfg"
    /\ argdeps \in (IF fn \in {"run_tests", "_exec_isolation"} THEN DepLists ELSE {<<>>})
    /\ argcmds \in (IF fn = "_exec_isolation" THEN CmdLists ELSE {<<>>})
    /\ staging \in {"absent", "stale"}
    /\ NoSession /\ NoRepository /\ NoSpecFile
    /\ NoBuildRpms /\ NoDriver /\ NoRepeat

(***************************************************************************)
(* The callers of _exec_isolation: what they pass.                         *)
(***************************************************************************)
EnterSession(cmds, deps) ==
    /\ pc = "call"
    /\ cmdlines' = cmds
    /\ dependencies' = deps
    /\ pc' = "rm"
    /\ UNCHANGED <<fn, cwd, root, argdeps, argcmds, idx, err, sres, res, stdout,
                   calls, staging, difffiles, diffindex, gen, specfile,
                   specorig, revout, revision, RpmsVars, CliVars, TwiceVars>>

exec_isolation_call ==
    /\ fn = "_exec_isolation"
    /\ EnterSession(argcmds, argdeps)

pep8_isolated ==
    /\ fn = "pep8_isolated"
    /\ EnterSession([k \in 1..Len(Pep8Exes) |-> Pep8Exes[k] \o " ."], Pep8Deps)

pyflakes_isolated ==
    /\ fn = "pyflakes_isolated"
    /\ EnterSession([k \in 1..Len(PyflakesExes) |-> PyflakesExes[k] \o " ."],
                    PyflakesDeps)

\* a slip: the Nose packages put before the caller's dependencies
run_tests_nose_first ==
    /\ fn = "run_tests"
    /\ EnterSession(Flatten(tcmds(TestsName)), NoseDeps \o argdeps)

\* lines 213-225: the six command lines and the dependencies with Nose added
run_tests ==
    /\ fn = "run_tests"
    /\ EnterSession(Flatten(tcmds(TestsName)), argdeps \o NoseDeps)

(***************************************************************************)
(* _exec_isolation, one step per process it launches.                      *)
(***************************************************************************)
SessionFrame == <<fn, cwd, root, argdeps, argcmds, cmdlines, dependencies,
                  difffiles, diffindex, gen, specfile, specorig, revout,
                  revision, res, stdout, RpmsVars, CliVars, TwiceVars>>

\* a slip: the staging path is not removed first
exec_isolation_rm_left_out ==
    /\ pc = "rm"
    /\ pc' = "install"
    /\ UNCHANGED <<SessionFrame, idx, err, sres, calls, staging>>

\* a slip: the removal is run with its status dropped
exec_isolation_rm_unchecked ==
    /\ pc = "rm"
    /\ \E st \in Statuses, gone \in BOOLEAN :
          /\ staging' = IF gone THEN "absent" ELSE staging
          /\ calls' = Append(calls, Proc("rm", _mock_exec(root, rmcmdl, ".", TRUE),
                                         st, <<>>, staging))
    /\ pc' = "install"
    /\ UNCHANGED <<SessionFrame, idx, err, sres>>

\* line 175: the removal is checked; a non-zero status leaves the session
exec_isolation_rm ==
    /\ pc = "rm"
    /\ LET argv == _mock_exec(root, rmcmdl, ".", TRUE) IN
       \/ /\ \E gone \in BOOLEAN :
                staging' = IF gone THEN "absent" ELSE staging
          /\ calls' = Append(calls, Proc("rm", argv, 0, <<>>, staging))
          /\ pc' = "install"
          /\ UNCHANGED sres
       \/ \E f \in SetupFailures :
          /\ calls' = Append(calls, Proc("rm", argv, f.status, f.out, staging))
          /\ sres' = Raised(CalledProcessError(f.status, argv, f.out))
          /\ pc' = "ret"
          /\ UNCHANGED staging
    /\ UNCHANGED <<SessionFrame, idx, err>>

\* a slip: the working directory is not copied in
exec_isolation_install_skips_copy ==
    /\ pc = "install"
    /\ \E st \in IgnoredStatuses :
          calls' = Append(calls, Proc("install", incmd(root, dependencies), st,
                                      <<>>, staging))
    /\ pc' = "chown"
    /\ UNCHANGED <<SessionFrame, idx, err, sres, staging>>

\* a slip: the install is run checked, as the removal is
exec_isolation_install_checked ==
    /\ pc = "install"
    /\ LET argv == incmd(root, dependencies) IN
       \/ /\ calls' = Append(calls, Proc("install", argv, 0, <<>>, staging))
          /\ pc' = "copyin"
          /\ UNCHANGED sres
       \/ /\ calls' = Append(calls, Proc("install", argv, 1, <<>>, staging))
          /\ sres' = Raised(CalledProcessError(1, argv, <<>>))
          /\ pc' = "ret"
    /\ UNCHANGED <<SessionFrame, idx, err, staging>>

\* line 176: subprocess.call, the status is dropped
exec_isolation_install ==
    /\ pc = "install"
    /\ \E st \in IgnoredStatuses :
          calls' = Append(calls, Proc("install", incmd(root, dependencies), st,
                                      <<>>, staging))
    /\ pc' = "copyin"
    /\ UNCHANGED <<SessionFrame, idx, err, sres, staging>>

\* a slip: the copy replaces whatever the destination holds
exec_isolation_copyin_replaces ==
    /\ pc = "copyin"
    /\ staging' = cwd
    /\ calls' = Append(calls, Proc("copyin", cpcmd(root, cwd), 0, <<>>, staging))
    /\ pc' = "chown"
    /\ UNCHANGED <<SessionFrame, idx, err, sres>>

\* line 177: subprocess.call, the status is dropped; the copy needs the
\* destination to be absent
exec_isolation_copyin ==
    /\ pc = "copyin"
    /\ \/ /\ staging = "absent"
          /\ staging' = cwd
          /\ calls' = Append(calls, Proc("copyin", cpcmd(root, cwd), 0, <<>>, staging))
       \/ /\ UNCHANGED staging
          /\ calls' = Append(calls, Proc("copyin", cpcmd(root, cwd), 1, <<>>, staging))
    /\ pc' = "chown"
    /\ UNCHANGED <<SessionFrame, idx, err, sres>>

\* a slip: the accumulator is made once and kept from call to call
exec_isolation_chown_keeps_err ==
    /\ pc = "chown"
    /\ LET argv == _mock_exec(root, chcmdl, ".", TRUE) IN
       \/ /\ calls' = Append(calls, Proc("chown", argv, 0, <<>>, staging))
          /\ idx' = 1
          /\ pc' = "cmds"
          /\ UNCHANGED <<sres, err>>
       \/ \E f \in SetupFailures :
          /\ calls' = Append(calls, Proc("chown", argv, f.status, f.out, staging))
          /\ sres' = Raised(CalledProcessError(f.status, argv, f.out))
          /\ pc' = "ret"
          /\ UNCHANGED <<err, idx>>
    /\ UNCHANGED <<SessionFrame, staging>>

\* a slip: the ownership fix is run with its status dropped
exec_isolation_chown_unchecked ==
    /\ pc = "chown"
    /\ \E st \in Statuses :
          calls' = Append(calls, Proc("chown", _mock_exec(root, chcmdl, ".", TRUE),
                                      st, <<>>, staging))
    /\ err' = CalledProcessError(0, NoCmd, <<>>)
    /\ idx' = 1
    /\ pc' = "cmds"
    /\ UNCHANGED <<SessionFrame, sres, staging>>

\* lines 178-179: the ownership fix is checked; then the accumulator is made
exec_isolation_chown ==
    /\ pc = "chown"
    /\ LET argv == _mock_exec(root, chcmdl, ".", TRUE) IN
       \/ /\ calls' = Append(calls, Proc("chown", argv, 0, <<>>, staging))
          /\ err' = CalledProcessError(0, NoCmd, <<>>)
          /\ idx' = 1
          /\ pc' = "cmds"
          /\ UNCHANGED sres
       \/ \E f \in SetupFailures :
          /\ calls' = Append(calls, Proc("chown", argv, f.status, f.out, staging))
          /\ sres' = Raised(CalledProcessError(f.status, argv, f.out))
          /\ pc' = "ret"
          /\ UNCHANGED <<err, idx>>
    /\ UNCHANGED <<SessionFrame, staging>>

\* line 182: err.output += _mock_exec(...)
OnSuccess(e, out) == [e EXCEPT !.output = @ \o out]

\* a slip: the failing command's error replaces the accumulator
OnFailureOnly(e, e_) == e_

\* a slip: every failure overwrites the remembered status and command
OnFailureLast(e, e_) ==
    [returncode |-> e_.returncode, cmd |-> e_.cmd, output |-> e.output \o e_.output]

\* lines 183-186: except CalledProcessError as err_
OnFailure(e, e_) ==
    [returncode |-> IF e.returncode = 0 THEN e_.returncode ELSE e.returncode,
     cmd |-> IF e.returncode = 0 THEN e_.cmd ELSE e.cmd,
     output |-> e.output \o e_.output]

\* a slip: the loop is left at the first failing command
exec_isolation_cmd_stops ==
    /\ pc = "cmds"
    /\ idx <= Len(cmdlines)
    /\ LET argv == _mock_exec(root, cmdlines[idx], mockdn, FALSE) IN
       \E r \in Results :
          /\ calls' = Append(calls, Proc("cmd", argv, r.status, r.out, staging))
          /\ err' = IF r.status = 0 THEN OnSuccess(err, r.out)
                    ELSE OnFailure(err, CalledProcessError(r.status, argv, r.out))
          /\ idx' = IF r.status = 0 THEN idx + 1 ELSE Len(cmdlines) + 1
    /\ UNCHANGED <<pc, SessionFrame, sres, staging>>

\* lines 180-186: one iteration of the for loop
exec_isolation_cmd ==
    /\ pc = "cmds"
    /\ idx <= Len(cmdlines)
    /\ LET argv == _mock_exec(root, cmdlines[idx], mockdn, FALSE) IN
       \E r \in Results :
          /\ calls' = Append(calls, Proc("cmd", argv, r.status, r.out, staging))
          /\ err' = IF r.status = 0 THEN OnSuccess(err, r.out)
                    ELSE OnFailure(err, CalledProcessError(r.status, argv, r.out))
    /\ idx' = idx + 1
    /\ UNCHANGED <<pc, SessionFrame, sres, staging>>

\* a slip: the remembered failure is never raised
SessionOutcomeNoRaise(e) == Returned(e.output)

\* lines 187-189: raise err if a failure was remembered, else return the output
SessionOutcome(e) == IF e.returncode # 0 THEN Raised(e) ELSE Returned(e.output)

exec_isolation_end ==
    /\ pc = "cmds"
    /\ idx > Len(cmdlines)
    /\ sres' = SessionOutcome(err)
    /\ pc' = "ret"
    /\ UNCHANGED <<SessionFrame, idx, err, calls, staging>>

(***************************************************************************)
(* What the callers do with the session's outcome.                         *)
(***************************************************************************)
ReturnFrame == <<fn, cwd, root, argdeps, argcmds, cmdlines, dependencies, idx,
                 err, sres, calls, staging, difffiles, diffindex, gen,
                 specfile, specorig, revout, revision, RpmsVars, CliVars,
                 TwiceVars>>

\* a slip: the failure is caught and its output returned
PassThroughOutput(r) == Returned(r.output)

\* "return _exec_isolation(...)": the value or the exception, as it is
PassThrough(r) == r

isolated_return ==
    /\ pc = "ret"
    /\ fn \in {"_exec_isolation", "pep8_isolated", "pyflakes_isolated"}
    /\ res' = PassThrough(sres)
    /\ pc' = "done"
    /\ UNCHANGED <<ReturnFrame, stdout>>

\* a slip: only the failure of a test command counts
TestStatusOfTests(r) ==
    IF r.kind = "raise" /\ r.cmd[Len(r.cmd)] \notin {rmcmdl, chcmdl}
    THEN r.returncode ELSE 0

\* lines 222-227: status, output of the try statement
TestStatus(r) == IF r.kind = "raise" THEN r.returncode ELSE 0
TestOutput(r) == r.output

\* lines 228-229: print(output.decode()); return not status
run_tests_return ==
    /\ pc = "ret"
    /\ fn = "run_tests"
    /\ LET text == Utf8Decode(TestOutput(sres)) IN
       IF text.ok
       THEN /\ stdout' = stdout \o text.text \o Newline
            /\ res' = ReturnedBool(TestStatus(sres) = 0)
       ELSE /\ res' = RaisedOther("UnicodeDecodeError")
            /\ UNCHANGED stdout
    /\ pc' = "done"
    /\ UNCHANGED ReturnFrame

Next ==
    \/ exec_isolation_call
    \/ pep8_isolated
    \/ pyflakes_isolated
    \/ run_tests
    \/ exec_isolation_rm
    \/ exec_isolation_install
    \/ exec_isolation_copyin
    \/ exec_isolation_chown
    \/ exec_isolation_cmd
    \/ exec_isolation_end
    \/ isolated_return
    \/ run_tests_return

Spec == Init /\ [][Next]_vars

(***************************************************************************)
(* uncommitted_changes: refresh, then "diff-files or diff-index".          *)
(* The repository answers like a Git work tree: diff-files with one        *)
(* status, diff-index with the status of the refresh generation the index  *)
(* is in; a refresh moves to the next generation while there is one.       *)
(***************************************************************************)
uicmd(repository) == <<"git", "-C", repository, "update-index", "-q", "--refresh">>
dfcmd(repository) == <<"git", "-C", repository, "diff-files", "--quiet">>
dicmd(repository) == <<"git", "-C", repository, "diff-index", "--quiet", "HEAD", "--">>

\* a slip: the refresh left out
UncommittedEntryNoRefresh == "difffiles"

\* the first statement after the command lines are built (line 45)
UncommittedEntry == "refresh"

InitGit ==
    /\ pc = UncommittedEntry
    /\ fn = "uncommitted_changes"
    /\ cwd = "repo" /\ root = ""
    /\ argdeps = <<>> /\ argcmds = <<>>
    /\ staging = "absent"
    /\ difffiles \in Statuses
    /\ diffindex \in UNION {[1..n -> Statuses] : n \in 1..MaxRefresh}
    /\ gen = 1
    /\ NoSession /\ NoSpecFile
    /\ NoBuildRpms /\ NoDriver /\ NoRepeat

GitFrame == <<fn, cwd, root, argdeps, argcmds, cmdlines, dependencies, idx, err,
              sres, stdout, staging, difffiles, diffindex, specfile, specorig,
              revout, revision, RpmsVars, CliVars, TwiceVars>>

\* what the refresh does to the repository
Refreshed(statuses, g) == IF g < Len(statuses) THEN g + 1 ELSE g

\* a slip: a failing refresh taken for uncommitted changes
update_index_checked ==
    /\ pc = "refresh"
    /\ \E st \in Statuses :
          /\ calls' = Append(calls, Proc("update-index", uicmd(cwd), st, <<>>, ""))
          /\ IF st # 0
             THEN res' = ReturnedBool(TRUE) /\ pc' = "done"
             ELSE pc' = "difffiles" /\ UNCHANGED res
    /\ gen' = Refreshed(diffindex, gen)
    /\ UNCHANGED GitFrame

\* line 45: subprocess.call(uicmd), the status is dropped
update_index ==
    /\ pc = "refresh"
    /\ \E st \in Statuses :
          calls' = Append(calls, Proc("update-index", uicmd(cwd), st, <<>>, ""))
    /\ gen' = Refreshed(diffindex, gen)
    /\ pc' = "difffiles"
    /\ UNCHANGED <<GitFrame, res>>

\* line 46, left operand of "or": a non-zero status is the result
diff_files ==
    /\ pc = "difffiles"
    /\ calls' = Append(calls, Proc("diff-files", dfcmd(cwd), difffiles, <<>>, ""))
    /\ IF difffiles # 0
       THEN res' = ReturnedBool(TRUE) /\ pc' = "done"
       ELSE pc' = "diffindex" /\ UNCHANGED res
    /\ UNCHANGED <<GitFrame, gen>>

\* line 46, right operand of "or", and bool()
diff_index ==
    /\ pc = "diffindex"
    /\ calls' = Append(calls, Proc("diff-index", dicmd(cwd), diffindex[gen], <<>>, ""))
    /\ res' = ReturnedBool(diffindex[gen] # 0)
    /\ pc' = "done"
    /\ UNCHANGED <<GitFrame, gen>>

NextGit == update_index \/ diff_files \/ diff_index

SpecGit == InitGit /\ [][NextGit]_vars

(***************************************************************************)
(* build_dnf: cmake, the revision query, the rewrite of the spec file and  *)
(* the source package build.                                               *)
(***************************************************************************)
\* "%global gitrev "
GitrevPrefix == <<37, 103, 108, 111, 98, 97, 108, 32, 103, 105, 116, 114, 101, 118, 32>>

\* an empty file, or the "gitrev" line ("g") and up to MaxSpecLen more characters
SpecFiles == {<<>>} \cup {<<103, 10>> \o rest : rest \in SeqsUpTo({97, 10}, MaxSpecLen)}
\* the helper prints the revision and a newline
RevOutputs == {<<98, 10>>, <<98, 99, 10>>}

\* s[:-1]
DropLast(s) == IF s = <<>> THEN <<>> ELSE SubSeq(s, 1, Len(s) - 1)

RECURSIVE FirstNewline(_, _)
FirstNewline(s, k) ==
    IF k > Len(s) THEN 0 ELSE IF <<s[k]>> = Newline THEN k ELSE FirstNewline(s, k + 1)

RECURSIVE Lines(_)
\* iteration over a text file: each line keeps its newline, the last may have none
Lines(s) ==
    IF s = <<>> THEN <<>>
    ELSE LET k == FirstNewline(s, 1)
         IN IF k = 0 THEN <<s>>
            ELSE <<SubSeq(s, 1, k)>> \o Lines(SubSeq(s, k + 1, Len(s)))

RECURSIVE PrintLines(_)
\* lines 90-91: print(line[:-1]) for each remaining line
PrintLines(ls) ==
    IF ls = <<>> THEN <<>>
    ELSE DropLast(Head(ls)) \o Newline \o PrintLines(Tail(ls))

\* lines 88-91: what the in-place rewrite leaves in the file
Rewritten(content, rev) ==
    GitrevPrefix \o rev \o Newline \o PrintLines(Tail(Lines(content)))

InitBuild ==
    /\ pc = "cmake"
    /\ fn = "build_dnf"
    /\ cwd = "repo-dnf" /\ root = "root.cfg"
    /\ argdeps = <<>> /\ argcmds = <<>>
    /\ staging = "absent"
    /\ specfile \in SpecFiles
    /\ specorig = specfile
    /\ revout \in RevOutputs
    /\ revision = <<>>
    /\ NoSession /\ NoRepository
    /\ NoBuildRpms /\ NoDriver /\ NoRepeat

BuildFrame == <<fn, cwd, root, argdeps, argcmds, cmdlines, dependencies, idx, err,
                sres, stdout, staging, difffiles, diffindex, gen, specorig,
                revout, RpmsVars, CliVars, TwiceVars>>

\* line 81: subprocess.call(['cmake', '.'], cwd=source), the status is dropped
build_dnf_cmake ==
    /\ pc = "cmake"
    /\ \E st \in IgnoredStatuses :
          calls' = Append(calls, Proc("cmake", <<"cmake", ".">>, st, <<>>, cwd))
    /\ pc' = "archive"
    /\ UNCHANGED <<BuildFrame, res, specfile, revision>>

\* a slip: the revision query's exit status is not looked at
build_dnf_archive_unchecked ==
    /\ pc = "archive"
    /\ \E st \in Statuses :
          calls' = Append(calls, Proc("archive", <<cwd \o "/package/archive">>,
                                      st, revout, cwd))
    /\ LET text == Utf8Decode(revout) IN
       IF text.ok
       THEN revision' = DropLast(text.text) /\ pc' = "rewrite" /\ UNCHANGED res
       ELSE /\ res' = RaisedOther("UnicodeDecodeError")
            /\ pc' = "done"
            /\ UNCHANGED revision
    /\ UNCHANGED <<BuildFrame, specfile>>

\* lines 83-84: check_output([archive_fn]).decode()[:-1]
build_dnf_archive ==
    /\ pc = "archive"
    /\ LET argv == <<cwd \o "/package/archive">> IN
       \/ /\ calls' = Append(calls, Proc("archive", argv, 0, revout, cwd))
          /\ LET text == Utf8Decode(revout) IN
             IF text.ok
             THEN revision' = DropLast(text.text) /\ pc' = "rewrite" /\ UNCHANGED res
             ELSE /\ res' = RaisedOther("UnicodeDecodeError")
                  /\ pc' = "done"
                  /\ UNCHANGED revision
       \/ \E st \in Statuses \ {0} :
          /\ calls' = Append(calls, Proc("archive", argv, st, revout, cwd))
          /\ res' = Raised(CalledProcessError(st, argv, revout))
          /\ pc' = "done"
          /\ UNCHANGED revision
    /\ UNCHANGED <<BuildFrame, specfile>>

\* lines 86-91: next(spec_file) needs a first line
build_dnf_rewrite ==
    /\ pc = "rewrite"
    /\ IF Lines(specfile) = <<>>
       THEN /\ res' = RaisedOther("StopIteration")
            /\ pc' = "done"
            /\ UNCHANGED specfile
       ELSE /\ specfile' = Rewritten(specfile, revision)
            /\ pc' = "buildsrpm"
            /\ UNCHANGED res
    /\ UNCHANGED <<BuildFrame, calls, revision>>

buildcmd(r, destination, spec_fn) ==
    <<"mock", "--quiet", "--root=" \o r, "--resultdir=" \o destination,
      "--no-cleanup-after", "--buildsrpm", "--spec=" \o spec_fn,
      "--sources=$HOME/rpmbuild/SOURCES">>

\* lines 93-97: subprocess.call(buildcmd), the status is dropped
build_dnf_buildsrpm ==
    /\ pc = "buildsrpm"
    /\ \E st \in IgnoredStatuses :
          calls' = Append(calls, Proc("buildsrpm",
                                      buildcmd(root, "srpms", cwd \o "/package/dnf.spec"),
                                      st, <<>>, cwd))
    /\ res' = ReturnedNone
    /\ pc' = "done"
    /\ UNCHANGED <<BuildFrame, specfile, revision>>

NextBuild ==
    \/ build_dnf_cmake
    \/ build_dnf_archive
    \/ build_dnf_rewrite
    \/ build_dnf_buildsrpm

SpecBuild == InitBuild /\ [][NextBuild]_vars

(***************************************************************************)
(* Properties.  They read the log of launched processes, never the         *)
(* accumulator the code keeps.                                             *)
(***************************************************************************)
CmdCalls == SelectSeq(calls, LAMBDA c : c.step = "cmd")
JointOutput == Concat([k \in 1..Len(CmdCalls) |-> CmdCalls[k].out])
Failing == {k \in 1..Len(CmdCalls) : CmdCalls[k].status # 0}
FirstFailing == CHOOSE k \in Failing : \A j \in Failing : k <= j
StepOK(step) == \E k \in 1..Len(calls) : calls[k].step = step /\ calls[k].status = 0
SetupOK == StepOK("rm") /\ StepOK("chown")
SessionOver == fn \in SessionFns /\ pc \in {"ret", "done"}
SessionFailed == SessionOver /\ SetupOK /\ Failing # {}

\* C1: when a session fails because of its commands (setup succeeded), the
\* output the raised CalledProcessError carries is the concatenation, in
\* invocation order, of the output of every command of the list, successful or
\* failing.
C1_FailureCarriesJointOutput ==
    SessionFailed =>
        /\ sres.kind = "raise"
        /\ Len(CmdCalls) = Len(cmdlines)
        /\ sres.output = JointOutput

C1_Witness ==
    /\ SessionFailed
    /\ \E j, k \in 1..Len(CmdCalls) :
          /\ j < k
          /\ CmdCalls[j].status # 0 /\ CmdCalls[k].status = 0
          /\ CmdCalls[j].out # CmdCalls[k].out

\* C2: the failure a session raises carries the exit status and the command of
\* the first failing command in list order, whatever later commands do.
C2_FirstFailureReported ==
    SessionFailed =>
        /\ sres.kind = "raise"
        /\ sres.returncode = CmdCalls[FirstFailing].status
        /\ sres.cmd = CmdCalls[FirstFailing].argv
        /\ sres.cmd[Len(sres.cmd)] = cmdlines[FirstFailing]

C2_Witness ==
    /\ SessionFailed
    /\ \E j, k \in Failing :
          /\ j < k
          /\ CmdCalls[j].status # CmdCalls[k].status
          /\ CmdCalls[j].argv # CmdCalls[k].argv

\* C3: with the removal and the ownership fix successful, the session raises
\* exactly when some command exits non-zero, and otherwise (the empty list
\* included) returns the concatenation in order of all command outputs.
C3_RaisesIffCommandFails ==
    (SessionOver /\ SetupOK) =>
        /\ Len(CmdCalls) = Len(cmdlines)
        /\ (sres.kind = "raise") <=> (Failing # {})
        /\ (Failing = {}) => sres = Returned(JointOutput)

C3_Witness ==
    /\ SessionOver /\ SetupOK
    /\ sres.kind = "return"
    /\ Len(cmdlines) >= 2
    /\ sres.output # <<>>

\* C4: run_tests returns True exactly when its session did not raise a process
\* failure, and returns False (after printing the output) when it did; it
\* never ends with an exception.
C4_RunTestsReturnsVerdict ==
    (fn = "run_tests" /\ pc = "done") =>
        /\ res.kind = "return"
        /\ res.flag <=> (sres.kind = "return")

NoseCmdlines ==
    <<"LANG=en_US.UTF-8 LC_ALL=en_US.UTF-8 nosetests-2.7 --quiet tests",
      "LANG=cs_CZ.utf8 LC_ALL=cs_CZ.utf8 nosetests-2.7 --quiet tests",
      "LANG=en_US.UTF-8 LC_ALL=en_US.UTF-8 nosetests-2.7 --quiet --nocapture tests",
      "LANG=en_US.UTF-8 LC_ALL=en_US.UTF-8 nosetests-3.4 --quiet tests",
      "LANG=cs_CZ.utf8 LC_ALL=cs_CZ.utf8 nosetests-3.4 --quiet tests",
      "LANG=en_US.UTF-8 LC_ALL=en_US.UTF-8 nosetests-3.4 --quiet --nocapture tests">>

\* C5: run_tests issues the six test invocations in the order 2.7 then 3.4,
\* each default/capturing, cs_CZ/capturing, default/non-capturing; when exactly
\* one of them exits non-zero all six were invoked and run_tests returns False.
C5_SixInvocationsOneFailure ==
    (fn = "run_tests" /\ pc = "done" /\ SetupOK) =>
        /\ Len(CmdCalls) = 6
        /\ \A k \in 1..6 : CmdCalls[k].argv[Len(CmdCalls[k].argv)] = NoseCmdlines[k]
        /\ (Cardinality(Failing) = 1) => res = ReturnedBool(FALSE)

\* C6: pep8_isolated and pyflakes_isolated hand on the outcome of their
\* session unchanged: the joint output when both tools exit zero, and when a
\* tool exits non-zero the CalledProcessError with the first failing status
\* and the joint output of both invocations.
C6_CheckersPassThrough ==
    (fn \in {"pep8_isolated", "pyflakes_isolated"} /\ pc = "done" /\ SetupOK) =>
        /\ Len(CmdCalls) = 2
        /\ (Failing = {}) => res = Returned(CmdCalls[1].out \o CmdCalls[2].out)
        /\ (Failing # {}) =>
              /\ res.kind = "raise" /\ res.exc = "CalledProcessError"
              /\ res.returncode = CmdCalls[FirstFailing].status
              /\ res.output = CmdCalls[1].out \o CmdCalls[2].out

C6_Witness ==
    /\ fn = "pyflakes_isolated" /\ pc = "done" /\ SetupOK
    /\ CmdCalls[1].status = 0 /\ CmdCalls[2].status # 0
    /\ CmdCalls[1].out # CmdCalls[2].out
    /\ res.kind = "raise"

ExpectedPackages ==
    IF fn = "pep8_isolated" THEN <<"python-pep8", "python3-pep8">>
    ELSE IF fn = "pyflakes_isolated" THEN <<"pyflakes", "python3-pyflakes">>
    ELSE argdeps \o <<"python-nose", "python3-nose">>

Checkers == {"pep8_isolated", "pyflakes_isolated", "run_tests"}
InstallCalls == {k \in 1..Len(calls) : calls[k].step = "install"}
InstallAttempted ==
    \E k \in InstallCalls :
       /\ calls[k].argv[4] = "--install"
       /\ SubSeq(calls[k].argv, 5, Len(calls[k].argv)) = ExpectedPackages
       /\ \A j \in 1..Len(calls) : calls[j].step = "cmd" => k < j

StatusOf(step) == {calls[k].status : k \in {j \in 1..Len(calls) : calls[j].step = step}}
GitDone == fn = "uncommitted_changes" /\ pc = "done"

\* C8: uncommitted_changes returns False when diff-files and diff-index both
\* exit 0, whatever the refresh exited with, and True when either of them
\* exits non-zero.
C8_DiffChecksDecide ==
    GitDone =>
        /\ res.kind = "return"
        /\ StatusOf("diff-files") # {}
        /\ StatusOf("diff-files") = {0} => StatusOf("diff-index") # {}
        /\ (StatusOf("diff-files") = {0} /\ StatusOf("diff-index") = {0}) => ~res.flag
        /\ (\E st \in StatusOf("diff-files") \cup StatusOf("diff-index") : st # 0)
              => res.flag

C8_Witness ==
    /\ GitDone
    /\ StatusOf("update-index") = {2}
    /\ StatusOf("diff-files") = {0} /\ StatusOf("diff-index") = {0}
    /\ res = ReturnedBool(FALSE)

\* C9: the refresh is the first Git command uncommitted_changes runs, so a
\* repository with a clean work tree whose diff-index would exit 1 before
\* the refresh and 0 after it is reported as having no uncommitted changes.
C9_RefreshComesFirst ==
    /\ (fn = "uncommitted_changes" /\ calls # <<>>) => calls[1].step = "update-index"
    /\ (GitDone /\ difffiles = 0 /\ Len(diffindex) >= 2
           /\ diffindex[1] # 0 /\ diffindex[2] = 0) => res = ReturnedBool(FALSE)

C9_Witness ==
    /\ GitDone /\ difffiles = 0
    /\ diffindex = <<1, 0>>
    /\ Len(calls) = 3
    /\ res = ReturnedBool(FALSE)

(***************************************************************************)
(* Properties of build_dnf.                                                *)
(***************************************************************************)
StripNewline(s) ==
    IF s # <<>> /\ <<s[Len(s)]>> = Newline THEN SubSeq(s, 1, Len(s) - 1) ELSE s

AfterFirstLine(s) ==
    LET k == FirstNewline(s, 1) IN IF k = 0 THEN <<>> ELSE SubSeq(s, k + 1, Len(s))

\* C10: after build_dnf the spec file is the line "%global gitrev " with the
\* revision-query output minus its trailing newline, followed by everything
\* the file held after its first line, unchanged.
C10_FirstLineReplacedRestVerbatim ==
    (fn = "build_dnf" /\ pc = "done" /\ res.kind = "return") =>
        specfile = GitrevPrefix \o StripNewline(revout) \o Newline
                   \o AfterFirstLine(specorig)

(***************************************************************************)
(* build_rpms: one run of "mockchain" over all the SRPMs.                  *)
(***************************************************************************)
MaxSrpms == 2       \* most SRPM names a caller passes

SrpmNames == {"a.src.rpm", "b.src.rpm", "c.src.rpm"}
BuildDir == "build"
Range(f) == {f[k] : k \in DOMAIN f}

InitRpms ==
    /\ pc = "call"
    /\ fn = "build_rpms"
    /\ cwd = "wd" /\ root = "root.cfg" /\ argdeps = <<>> /\ argcmds = <<>>
    /\ staging = "absent"
    /\ sources \in SeqsUpTo(SrpmNames, MaxSrpms)
    /\ failing \in SUBSET SrpmNames
    /\ resultdir = {}
    /\ NoSession /\ NoRepository /\ NoSpecFile /\ NoDriver /\ NoRepeat

RpmsFrame == <<fn, cwd, root, argdeps, argcmds, cmdlines, dependencies, idx, err,
               sres, stdout, staging, difffiles, diffindex, gen, specfile,
               specorig, revout, revision, sources, failing, CliVars, TwiceVars>>

\* lines 115-116
mockchaincmd(srcs, destination, r) ==
    <<"mockchain", "--root=" \o r, "--localrepo=" \o destination>> \o srcs

\* the executable: it refuses the whole chain when one SRPM cannot be built
\* and records what it built under the local repository otherwise
MockchainStatus(srcs, bad) == IF Range(srcs) \cap bad # {} THEN 1 ELSE 0
MockchainRecord(srcs, r) == [srpms |-> Range(srcs), root |-> r]

\* line 117: subprocess.call(cmd)
build_rpms_mockchain ==
    /\ pc = "call"
    /\ fn = "build_rpms"
    /\ LET st == MockchainStatus(sources, failing) IN
       /\ calls' = Append(calls, Proc("mockchain",
                                      mockchaincmd(sources, BuildDir, root), st,
                                      <<>>, BuildDir))
       /\ resultdir' = IF st = 0 THEN resultdir \cup {MockchainRecord(sources, root)}
                       ELSE resultdir
    /\ pc' = "ret"
    /\ UNCHANGED <<RpmsFrame, res>>

\* a slip: the exit status is dropped
BuildOutcomeIgnored(st) == ReturnedNone

\* lines 117-118: if subprocess.call(cmd): raise ValueError('build failed')
BuildOutcome(st) == IF st # 0 THEN RaisedOther("ValueError") ELSE ReturnedNone

build_rpms_return ==
    /\ pc = "ret"
    /\ fn = "build_rpms"
    /\ res' = BuildOutcome(calls[Len(calls)].status)
    /\ pc' = "done"
    /\ UNCHANGED <<RpmsFrame, calls, resultdir>>

NextRpms == build_rpms_mockchain \/ build_rpms_return

SpecRpms == InitRpms /\ [][NextRpms]_vars

(***************************************************************************)
(* C11: build_rpms runs the chained build once, with all the given SRPMs,  *)
(* and raises ValueError exactly when that run exits non-zero; when an     *)
(* SRPM cannot be built the error is raised and the result directory       *)
(* records nothing.                                                        *)
(***************************************************************************)
RpmsDone == fn = "build_rpms" /\ pc = "done"

C11_BuildFailureRaised ==
    RpmsDone =>
        /\ Len(calls) = 1
        /\ calls[1].argv = <<"mockchain", "--root=" \o root,
                             "--localrepo=" \o BuildDir>> \o sources
        /\ (res = RaisedOther("ValueError")) <=> (calls[1].status # 0)
        /\ calls[1].status = 0 => res = ReturnedNone
        /\ (\E k \in 1..Len(sources) : sources[k] \in failing) =>
               res = RaisedOther("ValueError") /\ resultdir = {}

C11_Witness ==
    /\ RpmsDone
    /\ Len(sources) = MaxSrpms
    /\ sources[1] \notin failing /\ sources[2] \in failing
    /\ res = RaisedOther("ValueError") /\ resultdir = {}

(***************************************************************************)
(* The command-line driver (src/dnf_ci/cli.py): main and _test_on_arch.    *)
(* Every dnf_ci.api function is one step whose outcome the environment     *)
(* chooses among the ways that function can end.                           *)
(***************************************************************************)
MaxArchArgs == 2    \* most -a arguments on the command line

\* the code points of the architecture names
ArchChars == [i386 |-> <<105, 51, 56, 54>>, x86_64 |-> <<120, 56, 54, 95, 54, 52>>]
ArchChoices == {"x86_64", "i386"}
Repository == "repo"
Pep8File == "pep8.out"
PyflakesFile == "pyflakes.out"
PylintFile == "pylint.out"
OutFileNames == {Pep8File, PyflakesFile, PylintFile}

\* str.__lt__: the order of the code point sequences
RECURSIVE SeqLess(_, _)
SeqLess(s, t) ==
    IF t = <<>> THEN FALSE
    ELSE IF s = <<>> THEN TRUE
    ELSE IF Head(s) # Head(t) THEN Head(s) < Head(t)
    ELSE SeqLess(Tail(s), Tail(t))
StrLess(a, b) == SeqLess(ArchChars[a], ArchChars[b])

\* sorted(): the least element first
RECURSIVE sorted(_)
sorted(S) ==
    IF S = {} THEN <<>>
    ELSE LET least == CHOOSE a \in S : \A b \in S \ {a} : StrLess(a, b)
         IN <<least>> \o sorted(S \ {least})

\* a slip: the arguments are taken as they were given
LoopArchsAsGiven(args) == args

\* line 286: sorted(set(arguments.arch))
LoopArchs(args) == sorted(Range(args))

\* what the parsed command line may be: -r, -8, -f and -l given or not
OutputConfs ==
    [rpmdn : {"", "out"}, pep8fn : {"", Pep8File},
     pyflakesfn : {"", PyflakesFile}, pylintfn : {"", PylintFile}]

InitCli ==
    /\ pc = "main"
    /\ fn = "main"
    /\ cwd = "wd" /\ root = "root.cfg" /\ argdeps = <<>> /\ argcmds = <<>>
    /\ staging = "absent"
    /\ argarch \in SeqsUpTo(ArchChoices, MaxArchArgs)
    /\ outconf \in OutputConfs
    /\ dirty \in BOOLEAN
    /\ archs = <<>> /\ archidx = 1 /\ status = 0 /\ rpms = <<>> /\ fs = {}
    /\ files = [n \in OutFileNames |-> <<>>]
    /\ apicalls = <<>> /\ prints = <<>>
    /\ NoSession /\ NoRepository /\ NoSpecFile /\ NoBuildRpms /\ NoRepeat

CliFrame == <<fn, cwd, root, argdeps, argcmds, cmdlines, dependencies, idx, err,
              sres, stdout, calls, staging, difffiles, diffindex, gen, specfile,
              specorig, revout, revision, RpmsVars, TwiceVars, argarch, outconf,
              dirty>>

\* os.path.join
Join(a, b) == a \o "/" \o b

\* line 136: a temporary directory of its own for every architecture run
TmpDir(k) == "/tmp/dnf-ci-" \o ToString(k)

\* lines 137-150: the names _test_on_arch makes
clonedn(dirname) == Join(dirname, "repo-dnf")
srpmdn(dirname) == Join(dirname, "srpms")
mockcfg(dirname, arch) == Join(dirname, arch \o ".cfg")
\* a slip: one result directory for all the architectures
rpmdn_shared(conf, dirname, arch) ==
    IF conf.rpmdn # "" THEN conf.rpmdn ELSE Join(dirname, "rpms")

rpmdn(conf, dirname, arch) ==
    Join(IF conf.rpmdn # "" THEN conf.rpmdn ELSE Join(dirname, "rpms"), arch)

\* a file a build left: the temporary directory it lies under ("" when it
\* lies elsewhere), its directory, its base name without the suffix, its suffix
File(tmp, dir, name, suffix) ==
    [tmp |-> tmp, dir |-> dir, name |-> name, suffix |-> suffix]

\* str.endswith for the suffixes of the files
EndsWith(f, suffix) ==
    \/ f.suffix = suffix
    \/ f.suffix = ".src.rpm" /\ suffix = ".rpm"

RECURSIVE SetToSeq(_)
SetToSeq(S) ==
    IF S = {} THEN <<>>
    ELSE LET x == CHOOSE y \in S : TRUE IN <<x>> \o SetToSeq(S \ {x})

\* lines 144-148, 171-175: the paths os.walk finds under top with the suffix
Walk(fsys, top, suffix) ==
    LET found == SetToSeq({f \in fsys : f.dir = top /\ EndsWith(f, suffix)})
    IN [k \in 1..Len(found) |-> Join(found[k].dir, found[k].name \o found[k].suffix)]

\* leaving the with statement of line 136 removes the temporary directory
Cleanup(fsys, dirname) == {f \in fsys : f.tmp # dirname}

\* one dnf_ci.api call as the log keeps it: the function, the architecture
\* it was called for, its string arguments, its list arguments, how it ended
ApiCall(api, arch, args, lists, result) ==
    [api |-> api, arch |-> arch, args |-> args, lists |-> lists, result |-> result]

\* sys.exit(status)
Exited(code) == [kind |-> "exit", exc |-> "SystemExit", returncode |-> code,
                 cmd |-> NoCmd, output |-> <<>>, flag |-> FALSE]

\* print(..., file=sys.stderr) and print(...)
ToStderr(text) == [stream |-> "stderr", text |-> text]
ToStdout(text) == [stream |-> "stdout", text |-> text]

\* the running architecture and its temporary directory
CurrentArch == archs[archidx]
dirname == TmpDir(archidx)

\* a slip: the uncommitted changes are reported and the run goes on
main_uncommitted_continue ==
    /\ pc = "main"
    /\ apicalls' = Append(apicalls, ApiCall("uncommitted_changes", "",
                                            <<Repository>>, <<>>, ReturnedBool(dirty)))
    /\ prints' = IF dirty
                 THEN Append(prints, ToStderr("The repository contains uncommitted changes."))
                 ELSE prints
    /\ archs' = LoopArchs(argarch) /\ status' = 0 /\ pc' = "for"
    /\ UNCHANGED <<CliFrame, res, archidx, rpms, fs, files>>

\* lines 280-286: the check of the repository, then the loop is set up
main_uncommitted ==
    /\ pc = "main"
    /\ apicalls' = Append(apicalls, ApiCall("uncommitted_changes", "",
                                            <<Repository>>, <<>>, ReturnedBool(dirty)))
    /\ IF dirty
       THEN /\ prints' = Append(prints,
                                ToStderr("The repository contains uncommitted changes."))
            /\ res' = Exited(1)
            /\ pc' = "done"
            /\ UNCHANGED <<archs, status>>
       ELSE /\ archs' = LoopArchs(argarch)
            /\ status' = 0
            /\ pc' = "for"
            /\ UNCHANGED <<prints, res>>
    /\ UNCHANGED <<CliFrame, archidx, rpms, fs, files>>

\* lines 286-287: the next architecture is announced
main_for ==
    /\ pc = "for"
    /\ archidx <= Len(archs)
    /\ prints' = Append(prints, ToStdout("Current testing architecture: " \o CurrentArch))
    /\ pc' = "clone"
    /\ UNCHANGED <<CliFrame, res, archs, archidx, status, rpms, fs, files, apicalls>>

\* line 289: sys.exit(status)
main_exit ==
    /\ pc = "for"
    /\ archidx > Len(archs)
    /\ res' = Exited(status)
    /\ pc' = "done"
    /\ UNCHANGED <<CliFrame, archs, archidx, status, rpms, fs, files, apicalls, prints>>

(***************************************************************************)
(* _test_on_arch, one step per dnf_ci.api call with what the driver does   *)
(* about its outcome.  An exception nothing catches leaves main as well.   *)
(***************************************************************************)
\* how a checker may end: exit status and output of its session
CheckResults == {[status |-> 0, out |-> <<97>>], [status |-> 1, out |-> <<98>>]}

\* lines 137-138
_test_on_arch_clone ==
    /\ pc = "clone"
    /\ apicalls' = Append(apicalls, ApiCall("clone", CurrentArch,
                                            <<Repository, clonedn(dirname)>>,
                                            <<>>, ReturnedNone))
    /\ pc' = "mockcfg"
    /\ UNCHANGED <<CliFrame, res, archs, archidx, status, rpms, fs, files, prints>>

\* dnf_ci.api.write_mockcfg: the configuration of the architecture's root is
\* written into the file it is given
MockcfgLeaves(dir, arch) == {File(dir, dir, arch, ".cfg")}

\* lines 139-142: the configuration is written into the temporary directory
_test_on_arch_write_mockcfg ==
    /\ pc = "mockcfg"
    /\ apicalls' = Append(apicalls, ApiCall("write_mockcfg", CurrentArch,
                                            <<mockcfg(dirname, CurrentArch), CurrentArch>>,
                                            <<>>, ReturnedNone))
    /\ fs' = fs \cup MockcfgLeaves(dirname, CurrentArch)
    /\ pc' = "build_dnf"
    /\ UNCHANGED <<CliFrame, res, archs, archidx, status, rpms, files, prints>>

\* what build_dnf leaves under its destination: Mock's exit status is not
\* looked at, so the SRPM may be there or not
BuildDnfLeaves(dir, made) ==
    {File(dirname, dir, "build", ".log")} \cup
    (IF made THEN {File(dirname, dir, "dnf", ".src.rpm")} ELSE {})

\* line 143: build_dnf returns, or the error of its revision query comes up
_test_on_arch_build_dnf ==
    /\ pc = "build_dnf"
    /\ LET args == <<clonedn(dirname), srpmdn(dirname), mockcfg(dirname, CurrentArch)>> IN
       \/ \E made \in BOOLEAN :
             /\ apicalls' = Append(apicalls, ApiCall("build_dnf", CurrentArch, args,
                                                     <<>>, ReturnedNone))
             /\ fs' = fs \cup BuildDnfLeaves(srpmdn(dirname), made)
             /\ pc' = "build_rpm"
             /\ UNCHANGED res
       \/ LET e == Raised(CalledProcessError(1, <<Join(clonedn(dirname), "package/archive")>>,
                                             <<>>)) IN
             /\ apicalls' = Append(apicalls, ApiCall("build_dnf", CurrentArch, args,
                                                     <<>>, e))
             /\ fs' = Cleanup(fs, dirname)
             /\ res' = e
             /\ pc' = "done"
    /\ UNCHANGED <<CliFrame, archs, archidx, status, rpms, files, prints>>

\* dnf_ci.api.build_rpm: the RPMs are built into the destination, or the
\* build failure (ValueError) is raised and the destination is left alone
BuildRpmOutcomes == {ReturnedNone, RaisedOther("ValueError")}
BuildRpmLeaves(conf, dir, o) ==
    IF o.kind = "raise" THEN {}
    ELSE {File(IF conf.rpmdn # "" THEN "" ELSE dirname, dir, "dnf", ".rpm")}

\* a slip: a failed RPM build ends the architecture run
_test_on_arch_build_rpm_fatal ==
    /\ pc = "build_rpm"
    /\ LET srpms == Walk(fs, srpmdn(dirname), ".src.rpm")
           dest == rpmdn(outconf, dirname, CurrentArch) IN
       /\ srpms # <<>>
       /\ \E o \in BuildRpmOutcomes :
             /\ apicalls' = Append(apicalls,
                                   ApiCall("build_rpm", CurrentArch,
                                           <<Head(srpms), dest,
                                             mockcfg(dirname, CurrentArch)>>, <<>>, o))
             /\ IF o.kind = "raise"
                THEN /\ prints' = Append(prints, ToStderr("RPM build failed."))
                     /\ fs' = Cleanup(fs, dirname)
                     /\ status' = 1
                     /\ archidx' = archidx + 1
                     /\ pc' = "for"
                ELSE /\ fs' = fs \cup BuildRpmLeaves(outconf, dest, o)
                     /\ pc' = "pep8"
                     /\ UNCHANGED <<prints, status, archidx>>
    /\ UNCHANGED <<CliFrame, res, archs, rpms, files>>

\* a slip: a missing SRPM is reported like a failed build
_test_on_arch_build_rpm_lenient ==
    /\ pc = "build_rpm"
    /\ LET srpms == Walk(fs, srpmdn(dirname), ".src.rpm")
           dest == rpmdn(outconf, dirname, CurrentArch) IN
       IF srpms = <<>>
       THEN /\ prints' = Append(prints, ToStderr("RPM build failed."))
            /\ UNCHANGED <<apicalls, fs>>
       ELSE \E o \in BuildRpmOutcomes :
               /\ apicalls' = Append(apicalls,
                                     ApiCall("build_rpm", CurrentArch,
                                             <<Head(srpms), dest,
                                               mockcfg(dirname, CurrentArch)>>,
                                             <<>>, o))
               /\ fs' = fs \cup BuildRpmLeaves(outconf, dest, o)
               /\ prints' = IF o.kind = "raise"
                            THEN Append(prints, ToStderr("RPM build failed."))
                            ELSE prints
    /\ pc' = "pep8"
    /\ UNCHANGED <<CliFrame, res, archs, archidx, status, rpms, files>>

\* lines 144-154: the first SRPM found is built; a failed build is reported;
\* next(srpms) without any SRPM raises StopIteration
_test_on_arch_build_rpm ==
    /\ pc = "build_rpm"
    /\ LET srpms == Walk(fs, srpmdn(dirname), ".src.rpm")
           dest == rpmdn(outconf, dirname, CurrentArch) IN
       IF srpms = <<>>
       THEN /\ res' = RaisedOther("StopIteration")
            /\ fs' = Cleanup(fs, dirname)
            /\ pc' = "done"
            /\ UNCHANGED <<apicalls, prints>>
       ELSE /\ \E o \in BuildRpmOutcomes :
                  /\ apicalls' = Append(apicalls,
                                        ApiCall("build_rpm", CurrentArch,
                                                <<Head(srpms), dest,
                                                  mockcfg(dirname, CurrentArch)>>,
                                                <<>>, o))
                  /\ fs' = fs \cup BuildRpmLeaves(outconf, dest, o)
                  /\ prints' = IF o.kind = "raise"
                               THEN Append(prints, ToStderr("RPM build failed."))
                               ELSE prints
            /\ pc' = "pep8"
            /\ UNCHANGED res
    /\ UNCHANGED <<CliFrame, archs, archidx, status, rpms, files>>

\* how a checker ends for its caller: the output, or CalledProcessError
CheckOutcome(api, r) ==
    IF r.status = 0 THEN Returned(r.out)
    ELSE Raised(CalledProcessError(r.status, <<api>>, r.out))

\* the ways pep8_isolated and pyflakes_isolated may end
IsolatedOutcomes(api) == {CheckOutcome(api, r) : r \in CheckResults}

\* dnf_ci.api.pylint_isolated: the output, or CalledProcessError carrying it
PylintOutcomes == {CheckOutcome("pylint_isolated", r) : r \in CheckResults}

\* a slip: a failed checker leaves nothing to write
CheckOutputOfSuccess(o) == IF o.kind = "raise" THEN <<>> ELSE o.output

\* lines 156-159: output = ...isolated(...), or output = err.output
CheckOutput(o) == o.output

\* lines 160-162: open(fn, 'wb') empties the file, write(output) fills it;
\* the file keeps every content it has held, the last one is what it holds
WriteOutput(fls, name, output) ==
    IF name # "" THEN [fls EXCEPT ![name] = Append(@, output)] ELSE fls

\* one checker with its try statement and its output file
RunChecker(api, outcomes, label, args, lists, name, next) ==
    \E o \in outcomes :
       /\ apicalls' = Append(apicalls, ApiCall(api, CurrentArch, args, lists, o))
       /\ prints' = IF o.kind = "raise"
                    THEN Append(prints, ToStderr(label \o " failed. See the log file."))
                    ELSE prints
       /\ files' = WriteOutput(files, name, CheckOutput(o))
       /\ pc' = next

\* lines 155-162
_test_on_arch_pep8 ==
    /\ pc = "pep8"
    /\ RunChecker("pep8_isolated", IsolatedOutcomes("pep8_isolated"), "Pep8",
                  <<clonedn(dirname), mockcfg(dirname, CurrentArch)>>, <<>>,
                  outconf.pep8fn, "pyflakes")
    /\ UNCHANGED <<CliFrame, res, archs, archidx, status, rpms, fs>>

\* lines 163-170
_test_on_arch_pyflakes ==
    /\ pc = "pyflakes"
    /\ RunChecker("pyflakes_isolated", IsolatedOutcomes("pyflakes_isolated"),
                  "Pyflakes",
                  <<clonedn(dirname), mockcfg(dirname, CurrentArch)>>, <<>>,
                  outconf.pyflakesfn, "pylint")
    /\ UNCHANGED <<CliFrame, res, archs, archidx, status, rpms, fs>>

\* lines 171-184: the RPMs are looked up, then Pylint runs with them
_test_on_arch_pylint ==
    /\ pc = "pylint"
    /\ LET found == Walk(fs, rpmdn(outconf, dirname, CurrentArch), ".rpm") IN
       /\ rpms' = found
       /\ RunChecker("pylint_isolated", PylintOutcomes, "Pylint",
                     <<clonedn(dirname), mockcfg(dirname, CurrentArch)>>,
                     <<<<"dnf", "tests">>, found>>,
                     outconf.pylintfn, "tests")
    /\ UNCHANGED <<CliFrame, res, archs, archidx, status, fs>>

\* how run_tests may end: its verdict, or the error of decoding the output
TestOutcomes == {ReturnedBool(TRUE), ReturnedBool(FALSE),
                 RaisedOther("UnicodeDecodeError")}

\* lines 185-188: the exit status of one architecture
ArchStatus(o) == IF ~o.flag THEN 1 ELSE 0

\* line 288: _test_on_arch(...) or status
OrStatus(ret, st) == IF ret # 0 THEN ret ELSE st

\* lines 185-188 and 288: the tests decide the status of the architecture
_test_on_arch_run_tests ==
    /\ pc = "tests"
    /\ \E o \in TestOutcomes :
          /\ apicalls' = Append(apicalls, ApiCall("run_tests", CurrentArch,
                                                  <<"tests", clonedn(dirname),
                                                    mockcfg(dirname, CurrentArch)>>,
                                                  <<rpms>>, o))
          /\ fs' = Cleanup(fs, dirname)
          /\ IF o.kind = "raise"
             THEN /\ res' = o
                  /\ pc' = "done"
                  /\ UNCHANGED <<prints, status, archidx>>
             ELSE /\ prints' = IF ~o.flag THEN Append(prints, ToStderr("Tests failed."))
                               ELSE prints
                  /\ status' = OrStatus(ArchStatus(o), status)
                  /\ archidx' = archidx + 1
                  /\ pc' = "for"
                  /\ UNCHANGED res
    /\ UNCHANGED <<CliFrame, archs, rpms, files>>

NextCli ==
    \/ main_uncommitted
    \/ main_for
    \/ main_exit
    \/ _test_on_arch_clone
    \/ _test_on_arch_write_mockcfg
    \/ _test_on_arch_build_dnf
    \/ _test_on_arch_build_rpm
    \/ _test_on_arch_pep8
    \/ _test_on_arch_pyflakes
    \/ _test_on_arch_pylint
    \/ _test_on_arch_run_tests

SpecCli == InitCli /\ [][NextCli]_vars

CliDone == fn = "main" /\ pc = "done"

(***************************************************************************)
(* The driver's log, as the claims read it.                                *)
(***************************************************************************)
ApiCalls(api) == SelectSeq(apicalls, LAMBDA c : c.api = api)
ArchCalls(arch) == SelectSeq(apicalls, LAMBDA c : c.arch = arch)
ApiNames(cs) == [k \in 1..Len(cs) |-> cs[k].api]
Requested == Range(argarch)
\* the architectures the test runner reported a failure for
TestsFailedOn ==
    {c.arch : c \in {d \in Range(ApiCalls("run_tests")) : d.result = ReturnedBool(FALSE)}}
\* the architectures whose run was begun, in the order they were begun
Processed == [k \in 1..Len(ApiCalls("clone")) |-> ApiCalls("clone")[k].arch]
\* the architecture that sorts last among the requested ones
LastArch == CHOOSE a \in Requested : \A b \in Requested \ {a} : StrLess(b, a)
Printed(stream, text) ==
    Len(SelectSeq(prints, LAMBDA p : p.stream = stream /\ p.text = text))
Raises(api) == Len(SelectSeq(ApiCalls(api), LAMBDA c : c.result.kind = "raise"))

(***************************************************************************)
(* C12: with a clean repository the driver exits with status 1 exactly     *)
(* when the test runner reported a failure for some requested              *)
(* architecture and with status 0 otherwise, and the tests were run for    *)
(* every requested architecture whatever the earlier ones reported.        *)
(***************************************************************************)
C12_ExitStatusIsTestVerdict ==
    (CliDone /\ ~dirty) =>
        /\ res.kind = "exit"
        /\ res.returncode = (IF TestsFailedOn # {} THEN 1 ELSE 0)
        /\ \A a \in Requested : \E c \in Range(ApiCalls("run_tests")) : c.arch = a

(***************************************************************************)
(* C13: at the end of a run on a clean repository the architectures that   *)
(* were processed are the distinct requested ones, each once, in strictly  *)
(* ascending lexical order, whatever the order and the repetitions of the  *)
(* -a arguments.                                                           *)
(***************************************************************************)
C13_EachArchOnceAscending ==
    (CliDone /\ ~dirty) =>
        /\ Range(Processed) = Requested
        /\ \A i, j \in 1..Len(Processed) : i < j => StrLess(Processed[i], Processed[j])

(***************************************************************************)
(* C14: with uncommitted changes the driver exits with status 1 after the  *)
(* check of the repository alone: nothing is cloned, built, checked or     *)
(* tested and no file is written.                                          *)
(***************************************************************************)
C14_UncommittedStopsEverything ==
    (CliDone /\ dirty) =>
        /\ res = Exited(1)
        /\ ApiNames(apicalls) = <<"uncommitted_changes">>
        /\ fs = {}
        /\ \A n \in OutFileNames : files[n] = <<>>

C14_Witness ==
    /\ CliDone /\ dirty
    /\ Requested = ArchChoices
    /\ outconf.pep8fn # ""
    /\ res = Exited(1)

\* the checkers with the message of their failure and their output file
CheckerTable ==
    {[api |-> "pep8_isolated", label |-> "Pep8", fname |-> outconf.pep8fn,
      file |-> Pep8File],
     [api |-> "pyflakes_isolated", label |-> "Pyflakes", fname |-> outconf.pyflakesfn,
      file |-> PyflakesFile],
     [api |-> "pylint_isolated", label |-> "Pylint", fname |-> outconf.pylintfn,
      file |-> PylintFile]}
\* no run of the architecture is under way
ArchOver(a) == pc \in {"main", "for", "done"} \/ a # CurrentArch
FullArchRun == <<"clone", "write_mockcfg", "build_dnf", "build_rpm", "pep8_isolated",
                 "pyflakes_isolated", "pylint_isolated", "run_tests">>
OutputsOf(api) == [k \in 1..Len(ApiCalls(api)) |-> ApiCalls(api)[k].result.output]

(***************************************************************************)
(* C15: an architecture run that reached the RPM build goes on through     *)
(* Pep8, Pyflakes, Pylint and the tests whatever the build and the         *)
(* checkers reported; each failure of the build or of a checker is         *)
(* printed to the standard error; the status the driver keeps is 1         *)
(* exactly when the test runner reported a failure.                        *)
(***************************************************************************)
C15_FailuresDoNotStopTheArch ==
    /\ \A a \in ArchChoices :
          (ArchOver(a) /\ \E c \in Range(ArchCalls(a)) : c.api = "build_rpm") =>
              ApiNames(ArchCalls(a)) = FullArchRun
    /\ Printed("stderr", "RPM build failed.") = Raises("build_rpm")
    /\ \A ch \in CheckerTable :
          Printed("stderr", ch.label \o " failed. See the log file.") = Raises(ch.api)
    /\ status = (IF TestsFailedOn # {} THEN 1 ELSE 0)

C15_Witness ==
    /\ CliDone /\ res = Exited(0)
    /\ Raises("build_rpm") > 0
    /\ \A ch \in CheckerTable : Raises(ch.api) = Len(archs)
    /\ Len(archs) > 1
    /\ Len(ApiCalls("run_tests")) = Len(archs)

(***************************************************************************)
(* C16: after a run on a clean repository for several architectures every  *)
(* output file that was named holds the output its checker gave for the    *)
(* architecture that sorts last, and nothing else.                         *)
(***************************************************************************)
C16_LastArchOutputKept ==
    (CliDone /\ ~dirty /\ Cardinality(Requested) > 1) =>
        \A ch \in CheckerTable :
            ch.fname # "" =>
                /\ files[ch.fname] # <<>>
                /\ \E c \in Range(ApiCalls(ch.api)) :
                      /\ c.arch = LastArch
                      /\ files[ch.fname][Len(files[ch.fname])] = c.result.output

(***************************************************************************)
(* C17: every time a checker has run, its output file was written exactly  *)
(* when a name was given for it, with the output the checker returned or,  *)
(* when it failed, the output its CalledProcessError carries.              *)
(***************************************************************************)
C17_OutputFileWrittenIffNamed ==
    \A ch \in CheckerTable :
        IF ch.fname # "" THEN files[ch.fname] = OutputsOf(ch.api)
        ELSE files[ch.file] = <<>>

C17_Witness ==
    /\ CliDone
    /\ outconf.pep8fn # "" /\ outconf.pyflakesfn = "" /\ outconf.pylintfn # ""
    /\ Len(ApiCalls("pyflakes_isolated")) > 1
    /\ files[Pep8File] = <<<<98>>, <<97>>>>
    /\ \E c \in Range(ApiCalls("pylint_isolated")) : c.result.kind = "raise"

(***************************************************************************)
(* A checker called twice in a row on the same root: the second call       *)
(* starts where the first one left the root.                               *)
(***************************************************************************)
TwiceFns == {"pep8_isolated", "pyflakes_isolated"}

InitTwice ==
    /\ pc = "call"
    /\ fn \in TwiceFns
    /\ cwd = "wd" /\ root = "root.cfg" /\ argdeps = <<>> /\ argcmds = <<>>
    /\ staging \in {"absent", "stale"}
    /\ round = 1 /\ first = Pending
    /\ NoSession /\ NoRepository /\ NoSpecFile /\ NoBuildRpms /\ NoDriver

\* the caller keeps the outcome and calls again with the same arguments; the
\* new call has its locals to assign, the root and the log are as they were
call_again ==
    /\ pc = "done"
    /\ round = 1
    /\ first' = res
    /\ round' = round + 1
    /\ res' = Pending /\ sres' = Pending
    /\ cmdlines' = <<>> /\ dependencies' = <<>> /\ idx' = 1
    /\ pc' = "call"
    /\ UNCHANGED <<fn, cwd, root, argdeps, argcmds, err, stdout, calls, staging,
                   difffiles, diffindex, gen, specfile, specorig, revout, revision,
                   RpmsVars, CliVars>>

NextTwice ==
    \/ pep8_isolated
    \/ pyflakes_isolated
    \/ exec_isolation_rm
    \/ exec_isolation_install
    \/ exec_isolation_copyin
    \/ exec_isolation_chown
    \/ exec_isolation_cmd
    \/ exec_isolation_end
    \/ isolated_return
    \/ call_again

SpecTwice == InitTwice /\ [][NextTwice]_vars

\* the tools were deterministic: a command line got the same exit status and
\* output each time it was run (the copy and the caller's commands: each time
\* it was run on the same staging content), and the removal had the same
\* effect each time it met the same staging content
SameAnswer(a, b) == a.status = b.status /\ a.out = b.out
ReadsStaging(c) == c.step \in {"copyin", "cmd"}
Deterministic ==
    /\ \A i, j \in 1..Len(calls) :
          (calls[i].argv = calls[j].argv
              /\ (ReadsStaging(calls[i]) => calls[i].dir = calls[j].dir)) =>
          SameAnswer(calls[i], calls[j])
    /\ \A i, j \in 1..(Len(calls) - 1) :
          (calls[i].step = "rm" /\ calls[j].step = "rm"
              /\ calls[i].status = 0 /\ calls[j].status = 0
              /\ calls[i].dir = calls[j].dir) =>
          calls[i + 1].dir = calls[j + 1].dir

TwiceDone == fn \in TwiceFns /\ round > 1 /\ pc = "done"
RmCalls == SelectSeq(calls, LAMBDA c : c.step = "rm")

(***************************************************************************)
(* C18: when pep8_isolated or pyflakes_isolated is called twice in a row   *)
(* with the same arguments and the tools answered deterministically, the   *)
(* second call ends as the first did: the same bytes returned, or the same *)
(* CalledProcessError raised, whatever the first call left at the staging  *)
(* path.                                                                   *)
(***************************************************************************)
C18_SecondCallEndsAsFirst ==
    (TwiceDone /\ Deterministic) => res = first

C18_Witness ==
    /\ TwiceDone /\ Deterministic
    /\ Len(RmCalls) > 1
    /\ RmCalls[1].dir = "absent" /\ RmCalls[Len(RmCalls)].dir = cwd
    /\ res = first
    /\ res.kind = "raise" /\ res.output = <<97, 195>>

(***************************************************************************)
(* The order of the processes of one session.                              *)
(***************************************************************************)
Steps == [k \in 1..Len(calls) |-> calls[k].step]
CmdLine(c) == c.argv[Len(c.argv)]
SetupInOrder ==
    /\ Len(calls) >= 4
    /\ \A k \in 1..Len(calls) :
          Steps[k] = (IF k = 1 THEN "rm" ELSE IF k = 2 THEN "install"
                      ELSE IF k = 3 THEN "copyin" ELSE IF k = 4 THEN "chown"
                      ELSE "cmd")
    /\ CmdLine(calls[1]) = "rm --recursive --force /tmp/dnf-ci"
    /\ calls[2].argv = <<"mock", "--quiet", "--root=" \o root, "--install">>
                           \o dependencies
    /\ calls[3].argv = <<"mock", "--quiet", "--root=" \o root, "--copyin", cwd,
                         "/tmp/dnf-ci">>
    /\ CmdLine(calls[4]) = "chown --recursive :mockbuild /tmp/dnf-ci"
NoCmdBeforeChown ==
    \A k \in 1..Len(calls) :
        Steps[k] = "cmd" => \E j \in 1..(k - 1) : Steps[j] = "chown"

C20_EveryCommandOnceInOrder ==
    (SessionOver /\ SetupOK) =>
        /\ Len(CmdCalls) = Len(cmdlines)
        /\ \A k \in 1..Len(CmdCalls) : CmdLine(CmdCalls[k]) = cmdlines[k]

C20_Witness ==
    /\ SessionOver /\ SetupOK
    /\ fn = "_exec_isolation"
    /\ cmdlines = <<"c2", "c1", "c2">>
    /\ CmdCalls[1].status # 0 /\ CmdCalls[2].status # 0 /\ CmdCalls[3].status = 0
    /\ \A k \in 1..Len(CmdCalls) : CmdLine(CmdCalls[k]) = cmdlines[k]

(***************************************************************************)
(* Sessions one after another on the same root, each with a working        *)
(* directory of its own choice.                                            *)
(***************************************************************************)
WorkDirs == {"wd", "wd2"}

InitSeq ==
    /\ pc = "call"
    /\ fn \in TwiceFns
    /\ cwd \in WorkDirs /\ root = "root.cfg" /\ argdeps = <<>> /\ argcmds = <<>>
    /\ staging \in {"absent", "stale"}
    /\ round = 1 /\ first = Pending
    /\ NoSession /\ NoRepository /\ NoSpecFile /\ NoBuildRpms /\ NoDriver

\* the next call, on another directory or on the same one; the root and the
\* log are as the call before left them
call_next ==
    /\ pc = "done"
    /\ round = 1
    /\ \E dir \in WorkDirs : cwd' = dir
    /\ round' = round + 1
    /\ res' = Pending /\ sres' = Pending
    /\ cmdlines' = <<>> /\ dependencies' = <<>> /\ idx' = 1
    /\ pc' = "call"
    /\ UNCHANGED <<fn, root, argdeps, argcmds, err, stdout, calls, staging,
                   difffiles, diffindex, gen, specfile, specorig, revout, revision,
                   RpmsVars, CliVars, first>>

NextSeq ==
    \/ pep8_isolated
    \/ pyflakes_isolated
    \/ exec_isolation_rm
    \/ exec_isolation_install
    \/ exec_isolation_copyin
    \/ exec_isolation_chown
    \/ exec_isolation_cmd
    \/ exec_isolation_end
    \/ isolated_return
    \/ call_next

SpecSeq == InitSeq /\ [][NextSeq]_vars

\* what the staging path held when the process after the k-th one started,
\* or holds now when the k-th is the last one
StagingAfter(k) == IF k < Len(calls) THEN calls[k + 1].dir ELSE staging
\* every removal exited zero and deleted the staging path
RemovalDeletes ==
    \A k \in 1..Len(calls) :
        calls[k].step = "rm" => calls[k].status = 0 /\ StagingAfter(k) = "absent"
\* every copy-in succeeded exactly when it found the staging path absent
CopyinWhenAbsent ==
    \A k \in 1..Len(calls) :
        calls[k].step = "copyin" => (calls[k].status = 0 <=> calls[k].dir = "absent")
\* the host directory the session of the k-th process was given: the source
\* of the copy-in that session ran
CopyinBefore(k) == CHOOSE j \in 1..k :
    /\ calls[j].step = "copyin"
    /\ \A i \in (j + 1)..k : calls[i].step # "copyin"
SessionDirOf(k) == calls[CopyinBefore(k)].argv[Len(calls[CopyinBefore(k)].argv) - 1]

(***************************************************************************)
(* C21: in sessions run one after another on one root, when every removal  *)
(* deleted the staging path and every copy-in succeeded exactly when the   *)
(* path was absent, each command ran while the staging path held the       *)
(* working directory of its own session, and a session that is over has    *)
(* left the staging path present, holding its working directory.           *)
(***************************************************************************)
C21_StagingHoldsOwnDirectory ==
    (fn \in TwiceFns /\ RemovalDeletes /\ CopyinWhenAbsent) =>
        /\ \A k \in 1..Len(calls) :
              calls[k].step = "cmd" => calls[k].dir = SessionDirOf(k)
        /\ (pc \in {"ret", "done"}) => staging = cwd /\ staging # "absent"

C21_Witness ==
    /\ RemovalDeletes /\ CopyinWhenAbsent
    /\ round > 1 /\ pc = "done"
    /\ cwd = "wd2"
    /\ Len(CmdCalls) = Len(cmdlines) + Len(cmdlines)
    /\ CmdCalls[1].dir = "wd" /\ CmdCalls[Len(CmdCalls)].dir = "wd2"
    /\ calls[1].dir = "stale"
    /\ staging = "wd2"

StepRan(step) == \E k \in 1..Len(calls) : calls[k].step = step
StepFailed(step) == \E k \in 1..Len(calls) : calls[k].step = step /\ calls[k].status # 0
StepArgv(step) == {calls[k].argv : k \in {j \in 1..Len(calls) : calls[j].step = step}}

(***************************************************************************)
(* C22: in a session that is over and whose dependency install or copy-in  *)
(* exited non-zero, the ownership fix was invoked all the same; when the   *)
(* ownership fix exited zero every command was invoked and the result is   *)
(* decided by the commands alone (raise exactly when one exited non-zero,  *)
(* else their joint output); and an error the session raises is never the  *)
(* one of the install or of the copy-in.                                   *)
(***************************************************************************)
C22_InstallAndCopyinStatusDropped ==
    (SessionOver /\ (StepFailed("install") \/ StepFailed("copyin"))) =>
        /\ StepRan("chown")
        /\ StepOK("chown") =>
              /\ Len(CmdCalls) = Len(cmdlines)
              /\ (sres.kind = "raise") <=> (Failing # {})
              /\ (Failing = {}) => sres = Returned(JointOutput)
        /\ (sres.kind = "raise") =>
              sres.cmd \notin (StepArgv("install") \cup StepArgv("copyin"))

C22_Witness ==
    /\ SessionOver
    /\ StepFailed("install") /\ StepFailed("copyin")
    /\ StepOK("chown")
    /\ Len(CmdCalls) >= 2
    /\ sres.kind = "return"
    /\ sres.output # <<>>

ChownCall == calls[CHOOSE k \in 1..Len(calls) : calls[k].step = "chown"]

(***************************************************************************)
(* C23: in a session that is over and whose ownership fix exited non-zero, *)
(* every command was invoked all the same and the result is decided by the *)
(* commands alone.                                                         *)
(***************************************************************************)
C23_ChownFailureIgnored ==
    (SessionOver /\ StepFailed("chown")) =>
        /\ Len(CmdCalls) = Len(cmdlines)
        /\ (sres.kind = "raise") <=> (Failing # {})
        /\ (Failing = {}) => sres = Returned(JointOutput)

\* C23, amended: in a session that is over and whose ownership fix exited
\* non-zero, no command was invoked and the session raised the failure of the
\* ownership fix: its status, its command line and its output.
C23_ChownFailureRaised ==
    (SessionOver /\ StepFailed("chown")) =>
        /\ CmdCalls = <<>>
        /\ sres = Raised(CalledProcessError(ChownCall.status, ChownCall.argv,
                                            ChownCall.out))
        /\ calls[Len(calls)] = ChownCall

C23_Witness ==
    /\ SessionOver /\ StepFailed("chown")
    /\ StepOK("install") /\ StepOK("copyin")
    /\ Len(cmdlines) >= 2
    /\ ChownCall.out # <<>>

\* the processes of the session running now or run last: from its removal on
LastRm == CHOOSE k \in 1..Len(calls) :
    calls[k].step = "rm" /\ \A j \in (k + 1)..Len(calls) : calls[j].step # "rm"
ThisSession == IF StepRan("rm") THEN SubSeq(calls, LastRm, Len(calls)) ELSE <<>>
Of(cs, step) == SelectSeq(cs, LAMBDA c : c.step = step)
\* the copy-in of this session found the staging path still there although the
\* removal had exited zero
CopyinOnStale ==
    /\ Of(ThisSession, "copyin") # <<>>
    /\ Of(ThisSession, "copyin")[1].dir # "absent"
    /\ Of(ThisSession, "rm")[1].status = 0

(***************************************************************************)
(* C24: when the copy-in of a session finds the staging path present (the  *)
(* removal exited zero without removing it), the copy-in exits with status *)
(* 1 and leaves the path as it was, every command of the session then runs *)
(* on that left-over content, and the session's outcome does not show the  *)
(* failure: with the ownership fix successful all commands run and the     *)
(* session raises exactly when one of them exits non-zero.                 *)
(***************************************************************************)
C24_StaleStagingGoesUnnoticed ==
    (fn \in TwiceFns /\ CopyinOnStale) =>
        LET cp == Of(ThisSession, "copyin")[1]
            cmds == Of(ThisSession, "cmd")
            chown == Of(ThisSession, "chown") IN
        /\ cp.status = 1
        /\ staging = cp.dir
        /\ \A k \in 1..Len(cmds) : cmds[k].dir = cp.dir
        /\ (pc = "done" /\ chown # <<>> /\ chown[1].status = 0) =>
              /\ Len(cmds) = Len(cmdlines)
              /\ (res.kind = "raise") <=> (\E k \in 1..Len(cmds) : cmds[k].status # 0)

C24_Witness ==
    /\ CopyinOnStale
    /\ round > 1 /\ pc = "done"
    /\ cwd = "wd2"
    /\ Of(ThisSession, "copyin")[1].dir = "wd"
    /\ Len(Of(ThisSession, "cmd")) = Len(cmdlines)
    /\ Of(ThisSession, "cmd")[1].dir = "wd"
    /\ res.kind = "return"

\* a process run inside the root ("--chroot" precedes its command line), and
\* one run there with root privileges (no "--unpriv" after the root's name)
InChroot(c) == Len(c.argv) >= 5 /\ c.argv[Len(c.argv) - 1] = "--chroot"
Unprivileged(c) == c.argv[4] = "--unpriv"
AsRoot(c) == InChroot(c) /\ ~Unprivileged(c)
StagingAsCwd == "--cwd=" \o mockdn

(***************************************************************************)
(* C25: of the processes a session launches, the ones run inside the root  *)
(* with root privileges are exactly the staging removal and the ownership  *)
(* fix; every command line of the caller is run inside the root with       *)
(* '--unpriv' and with the staging path as working directory.              *)
(***************************************************************************)
C25_OnlySetupRunsAsRoot ==
    fn \in SessionFns =>
        \A k \in 1..Len(calls) :
            LET c == calls[k] IN
            /\ AsRoot(c) <=> c.step \in {"rm", "chown"}
            /\ c.step = "rm" => c.argv[Len(c.argv)] = rmcmdl
            /\ c.step = "chown" => c.argv[Len(c.argv)] = chcmdl
            /\ c.step = "cmd" =>
                  /\ InChroot(c) /\ Unprivileged(c)
                  /\ c.argv[5] = StagingAsCwd
                  /\ \E i \in 1..Len(cmdlines) : c.argv[Len(c.argv)] = cmdlines[i]

C25_Witness ==
    /\ SessionOver /\ SetupOK
    /\ StepRan("install") /\ StepRan("copyin")
    /\ Len(CmdCalls) >= 2
    /\ CmdCalls[1].argv # CmdCalls[2].argv

ArchiveCall == calls[CHOOSE k \in 1..Len(calls) : calls[k].step = "archive"]

(***************************************************************************)
(* C26: in build_dnf the revision query is invoked whatever the build      *)
(* configuration exited with, and once the source-package build has been   *)
(* invoked build_dnf returns normally whatever that build exited with;     *)
(* when the revision query exits non-zero build_dnf is over at once with   *)
(* that CalledProcessError, the spec file is as it was and the             *)
(* source-package build has not been invoked.                              *)
(***************************************************************************)
C26_OnlyRevisionQueryChecked ==
    fn = "build_dnf" =>
        /\ (pc # "cmake") => calls[1].step = "cmake"
        /\ (pc \notin {"cmake", "archive"}) => calls[2].step = "archive"
        /\ StepRan("buildsrpm") => pc = "done" /\ res = ReturnedNone
        /\ StepFailed("archive") =>
              /\ pc = "done"
              /\ res = Raised(CalledProcessError(ArchiveCall.status, ArchiveCall.argv,
                                                 ArchiveCall.out))
              /\ calls[Len(calls)] = ArchiveCall
              /\ specfile = specorig
              /\ ~StepRan("buildsrpm")

C26_Witness ==
    /\ fn = "build_dnf" /\ pc = "done"
    /\ StepFailed("cmake")
    /\ StepFailed("archive")
    /\ Len(Lines(specfile)) >= 2
    /\ res.kind = "raise"

\* the run of architecture a has come to its end without an exception
ArchCompleted(a) ==
    IF pc \in {"main", "for"} THEN TRUE
    ELSE IF pc = "done" /\ res.kind = "exit" THEN TRUE
    ELSE a # CurrentArch
\* the result directories the architecture's binary build may have been given
ResultDirs(a) == {rpmdn(outconf, TmpDir(k), a) : k \in 1..Len(archs)}
\* the binary artifacts a build_rpm call left in its result directory
Built(b) == IF b.result.kind = "raise" THEN <<>> ELSE <<Join(b.args[2], "dnf.rpm")>>

C28_RemovalFailureRaisedAtOnce ==
    (fn \in SessionFns /\ StepFailed("rm")) =>
        /\ pc \in {"ret", "done"}
        /\ Len(calls) = 1
        /\ calls[1].step = "rm"
        /\ calls[1].argv = _mock_exec(root, rmcmdl, ".", TRUE)
        /\ sres = Raised(CalledProcessError(calls[1].status, calls[1].argv,
                                            calls[1].out))

C28_Witness ==
    /\ SessionOver /\ StepFailed("rm")
    /\ fn = "_exec_isolation"
    /\ Len(cmdlines) >= 2 /\ dependencies # <<>>
    /\ calls[1].out # <<>>
    /\ sres.kind = "raise"

SetupFailed == StepFailed("rm") \/ StepFailed("chown")
\* the setup step that failed: the last process the session launched
FailedSetupCall == calls[Len(calls)]

NoSrpmAfterBuild ==
    /\ fn = "main" /\ pc = "build_rpm"
    /\ Walk(fs, srpmdn(dirname), ".src.rpm") = <<>>
\* what the step taken from there leaves behind
AbortedAtBuildRpm ==
    /\ pc' = "done"
    /\ res' = RaisedOther("StopIteration")
    /\ res'.kind # "exit"
    /\ apicalls' = apicalls /\ files' = files /\ status' = status
    /\ ApiNames(ArchCalls(CurrentArch)) = <<"clone", "write_mockcfg", "build_dnf">>
    /\ \A k \in (archidx + 1)..Len(archs) : ArchCalls(archs[k]) = <<>>

(***************************************************************************)
(* C30: when build_dnf has returned and no file ending in '.src.rpm' lies  *)
(* under its result directory, the next step of the driver ends the        *)
(* program with an uncaught StopIteration instead of sys.exit(status): no  *)
(* build_rpm, checker or test call is made for the architecture, no output *)
(* file is written, no later architecture gets any call; and a program     *)
(* that has ended takes no further step.                                   *)
(***************************************************************************)
C30_MissingSrpmAbortsTheRun ==
    [][/\ pc # "done"
       /\ NoSrpmAfterBuild => AbortedAtBuildRpm]_vars

C30_Witness ==
    /\ fn = "main" /\ pc = "done"
    /\ res = RaisedOther("StopIteration")
    /\ Len(archs) = 2 /\ archidx = 1
    /\ ApiNames(ArchCalls(archs[1])) = <<"clone", "write_mockcfg", "build_dnf">>
    /\ ArchCalls(archs[2]) = <<>>
    /\ outconf.pep8fn # "" /\ files[Pep8File] = <<>>

====
